---- MODULE Spec2Model ----
(***************************************************************************)
(* depcheck-rs: the dependency checker of crates/core (parallel walk, a    *)
(* pool of extractor workers behind a mutex-guarded receiver, one draining *)
(* aggregator) and of crates/depcheck_core (the single-threaded walk, the  *)
(* per-file extraction pipeline and the CheckResult queries).              *)
(*                                                                         *)
(* Package names and import specifiers are sequences of path segments:     *)
(* "@s/p/x" is <<"@s", "p", "x">>, "./x" is <<".", "x">>.  Paths are       *)
(* sequences of path components.                                           *)
(***************************************************************************)
EXTENDS Integers, Sequences, FiniteSets, TLC

VARIABLES
    crate,                \* which Checker runs: "core" or "depcheck_core"
    config,               \* Config: ignore_patterns, skip_missing, ignore_bin_package
    package,              \* the root manifest: the four dependency mappings (key sets)
    node_modules,         \* installed manifests, by package name
    tree,                 \* the project tree: entry id -> directory entry
    sources,              \* file entry id -> what the parser and analyzer yield for it
    main_pc,              \* the thread that called check_package
    outcome,              \* what the caller gets: "none", "Ok", "Err", "panic"
    error_context,        \* the context wrapped around an Err
    pool_pc,              \* the thread spawned at core checker.rs:99
    spawned,              \* workers spawned by the pool thread so far
    joined,               \* worker handles joined by the pool thread so far
    worker_pc,            \* each extractor worker's position in its loop
    worker_path,          \* the entry a worker received and is extracting
    lock,                 \* holder of the Mutex around file_receiver, 0 when free
    file_channel,         \* items in flight on the work channel
    file_senders,         \* live Sender<WorkerResult> handles
    dependency_channel,   \* (file, name-set) messages in flight
    dependency_senders,   \* live senders of the result channel
    walker_pc,            \* each thread of the parallel walker
    walk_pending,         \* entries the walker has found and not yet visited
    walk_stack,           \* the sequential walker's stack of entries to yield
    dependencies,         \* depcheck_core: the per-file map check_directory collects
    using_dependencies,   \* the usage map: name -> set of relative files
    visited,              \* entries handed to the walk callback or filter
    sent,                 \* entries sent on the work channel as Entry or Error
    recv_count,           \* entry -> number of receives of its item
    messages,             \* file -> number of result messages sent for it
    merged,               \* file -> number of merges of its message
    merge_order,          \* the files in the order their name-sets were merged
    report,               \* depcheck_core: the three sets read off the CheckResult
    prev_result           \* the usage map of the previous run on this tree, if any

vars == <<crate, config, package, node_modules, tree, sources, main_pc, outcome,
          error_context, pool_pc, spawned, joined, worker_pc, worker_path, lock,
          file_channel, file_senders, dependency_channel, dependency_senders,
          walker_pc, walk_pending, walk_stack, dependencies, using_dependencies,
          visited, sent, recv_count, messages, merged, merge_order, report,
          prev_result>>

inputs == <<crate, config, package, node_modules, tree, sources>>

(***************************************************************************)
(* Bounds.                                                                 *)
(***************************************************************************)
\* num_cpus::get(): the number of walker threads and of extractor workers.
NumThreads == 2

Threads == 1..NumThreads

(***************************************************************************)
(* Names, specifiers, paths.                                               *)
(***************************************************************************)
PkgA == <<"a">>
PkgB == <<"b">>
PkgC == <<"c">>
PkgFs == <<"fs">>
PkgScoped == <<"@s", "p">>
TypesA == <<"@types", "a">>

Directory == <<"proj">>

\* Path::strip_prefix: the rest of the path, or nothing when base is no prefix.
\* The result is a sequence holding the stripped path, or the empty sequence.
StripPrefix(path, base) ==
    IF Len(path) >= Len(base) /\ SubSeq(path, 1, Len(base)) = base
    THEN << SubSeq(path, Len(base) + 1, Len(path)) >>
    ELSE << >>

(***************************************************************************)
(* The project tree.  Entry 0 is the root directory (depth 0).             *)
(***************************************************************************)
EntryIds == 0..5

RECURSIVE EntryPath(_)
\* entry.path(): the walker's root joined with the names down to the entry.
EntryPath(e) ==
    IF tree[e].depth = 0 THEN Directory
    ELSE Append(EntryPath(tree[e].parent), tree[e].name)

Children(e) == {c \in EntryIds : tree[c].depth > 0 /\ tree[c].parent = e}

\* is_module(entry.path()): the directory is the root of an installed package.
is_module(e) == tree[e].is_module

\* Glob patterns are literal names here; "[" is an unclosed character class.
PatternMalformed(pattern) == pattern = "["

\* The override "!pattern" of the walker: the entry's name matches the glob.
OverrideIgnores(e) ==
    \E i \in 1..Len(config.ignore_patterns) :
        tree[e].depth > 0 /\ tree[e].name = config.ignore_patterns[i]

\* config.get_ignore_matches().is_match(dependency)
IgnoreMatches(name) ==
    \E i \in 1..Len(config.ignore_patterns) : name = << config.ignore_patterns[i] >>

\* The first malformed pattern in configuration order, as a set of indices.
MalformedPatterns ==
    {i \in 1..Len(config.ignore_patterns) : PatternMalformed(config.ignore_patterns[i])}

FirstMalformed ==
    CHOOSE i \in MalformedPatterns : \A j \in MalformedPatterns : i <= j

(***************************************************************************)
(* The root manifest and the installed manifests.                          *)
(***************************************************************************)
is_dependency(name) == name \in package.dependencies
is_dev_dependency(name) == name \in package.dev_dependencies
is_any_dependency(name) ==
    \/ name \in package.dependencies
    \/ name \in package.dev_dependencies
    \/ name \in package.peer_dependencies
    \/ name \in package.optional_dependencies

\* load_module(directory/node_modules/name): the manifest, or a failure.
ModuleLoads(name) == name \in DOMAIN node_modules

\* is_bin_dependency: the installed manifest loads and declares a binary but
\* no importable entry; a manifest that fails to load is not bin-only.
is_bin_dependency(name) == ModuleLoads(name) /\ node_modules[name].bin_only

\* The fixed allow-list of built-in modules, applied to a package name.
CoreModules == {PkgFs}
is_core_module(name) == name \in CoreModules

(***************************************************************************)
(* Per-file extraction (depcheck_core checker.rs:103-177).                 *)
(***************************************************************************)
\* Mutant: only the current-directory component marks a local specifier.
IsExternalNotCurDir(specifier) ==
    specifier # << >> /\ Head(specifier) # "."

\* PathBuf::from(specifier).components().next() is Component::Normal.
IsExternal(specifier) ==
    specifier # << >> /\ Head(specifier) \notin {".", "..", "/"}

IsScopeSegment(segment) == segment \in {"@s", "@types"}

\* Scoped names keep their first two segments, the others the first one.
extract_package_name(specifier) ==
    IF IsScopeSegment(Head(specifier)) /\ Len(specifier) >= 2
    THEN SubSeq(specifier, 1, 2)
    ELSE SubSeq(specifier, 1, 1)

\* "@types/" + name
TypesPrefixed(name) == <<"@types">> \o name

\* extract_type_name(name): the type-stub package of name.
extract_type_name(name) == <<"@types">> \o name

\* Mutant: a type-only import keeps the package name next to its type stub.
TypeNamesKeepsName(dependency, syntax) ==
    LET name == extract_package_name(dependency.specifier) IN
    IF syntax = "Typescript"
    THEN IF is_dependency(extract_type_name(name))
            \/ is_dev_dependency(extract_type_name(name))
         THEN {name, extract_type_name(name)}
         ELSE IF dependency.kind = "ImportType" THEN {} ELSE {name}
    ELSE {name}

\* Mutant: the type stub is added only when the package itself is declared too.
TypeNamesBothDeclared(dependency, syntax) ==
    LET name == extract_package_name(dependency.specifier) IN
    IF syntax = "Typescript"
    THEN IF dependency.kind = "ImportType"
         THEN IF is_dependency(TypesPrefixed(name)) \/ is_dev_dependency(TypesPrefixed(name))
              THEN {TypesPrefixed(name)}
              ELSE {}
         ELSE IF /\ is_dependency(extract_type_name(name))
                    \/ is_dev_dependency(extract_type_name(name))
                 /\ is_dependency(name) \/ is_dev_dependency(name)
              THEN {name, extract_type_name(name)}
              ELSE {name}
    ELSE {name}

\* The first flat_map: the names one raw dependency yields in a file of the
\* given syntax.
TypeNames(dependency, syntax) ==
    LET name == extract_package_name(dependency.specifier) IN
    IF syntax = "Typescript"
    THEN IF dependency.kind = "ImportType"
         THEN IF is_dependency(TypesPrefixed(name)) \/ is_dev_dependency(TypesPrefixed(name))
              THEN {TypesPrefixed(name)}
              ELSE {}
         ELSE IF is_dependency(extract_type_name(name))
                 \/ is_dev_dependency(extract_type_name(name))
              THEN {name, extract_type_name(name)}
              ELSE {name}
    ELSE {name}

\* The two filters after it: built-in modules, then bin-only packages.
KeepName(name) ==
    /\ ~is_core_module(name)
    /\ (~config.ignore_bin_package \/ ~is_bin_dependency(name))

\* Mutant: forwarding is applied again to the names it added.
ForwardedTwoLevels(name) ==
    LET once(n) ==
            IF ModuleLoads(n)
            THEN {n}
                 \cup {p \in node_modules[n].peer_dependencies :
                         is_dependency(p) \/ is_dev_dependency(p)}
                 \cup {o \in node_modules[n].optional_dependencies :
                         is_dependency(o) \/ is_dev_dependency(o)}
            ELSE {n}
    IN UNION {once(m) : m \in once(name)}

\* The second flat_map: the name plus the peer and optional dependencies of its
\* installed manifest that the root manifest declares.
Forwarded(name) ==
    IF ModuleLoads(name)
    THEN {name}
         \cup {p \in node_modules[name].peer_dependencies :
                 is_dependency(p) \/ is_dev_dependency(p)}
         \cup {o \in node_modules[name].optional_dependencies :
                 is_dependency(o) \/ is_dev_dependency(o)}
    ELSE {name}

\* The whole pipeline for one parsed file: the collected HashSet of names.
FileDependencies(source) ==
    UNION { Forwarded(name) :
            name \in { n \in UNION { TypeNames(d, source.syntax) :
                                     d \in {r \in source.deps : IsExternal(r.specifier)} } :
                       KeepName(n) } }

\* Mutant: the file set of a name is replaced instead of extended.
MergeFileOverwrite(map, file, names) ==
    [d \in (DOMAIN map) \cup names |-> IF d \in names THEN {file} ELSE map[d]]

\* Mutant: a file is recorded only under names the map does not hold yet.
MergeFileKeepFirst(map, file, names) ==
    [d \in (DOMAIN map) \cup names |-> IF d \in DOMAIN map THEN map[d] ELSE {file}]

\* The insertion loop of the aggregation: each name of the set gains the file.
MergeFile(map, file, names) ==
    [d \in (DOMAIN map) \cup names |->
        (IF d \in DOMAIN map THEN map[d] ELSE {})
        \cup (IF d \in names THEN {file} ELSE {})]

EmptyMap == [d \in {} |-> {}]

(***************************************************************************)
(* Inputs: the trees, file contents, manifests and configurations a run    *)
(* is started on.                                                          *)
(***************************************************************************)
EntryShape ==
    << [parent |-> 0, name |-> "",      depth |-> 0, file_type |-> "dir"],
       [parent |-> 0, name |-> "main",  depth |-> 1, file_type |-> "file"],
       [parent |-> 0, name |-> "pkg",   depth |-> 1, file_type |-> "dir"],
       [parent |-> 2, name |-> "sub",   depth |-> 2, file_type |-> "dir"],
       [parent |-> 3, name |-> "index", depth |-> 3, file_type |-> "file"],
       [parent |-> 0, name |-> "b",     depth |-> 1, file_type |-> "file"] >>

FileIds == {e \in EntryIds : EntryShape[e + 1].file_type = "file"}

MakeTree(modules, errors) ==
    [e \in EntryIds |->
        [parent    |-> EntryShape[e + 1].parent,
         name      |-> EntryShape[e + 1].name,
         depth     |-> EntryShape[e + 1].depth,
         file_type |-> EntryShape[e + 1].file_type,
         error     |-> e \in errors,
         is_module |-> e \in modules]]

Dep(specifier, kind) == [specifier |-> specifier, kind |-> kind]

Parsed(syntax, deps) == [parses |-> TRUE, syntax |-> syntax, deps |-> deps]
Unparsable == [parses |-> FALSE, syntax |-> "Es", deps |-> {}]

DepSets ==
    { {Dep(<<"a">>, "Import")},
      {Dep(<<"a">>, "ImportType")},
      {Dep(<<"c", "lib">>, "Require"), Dep(<<".", "x">>, "Import")},
      {Dep(<<"c">>, "ImportType"), Dep(<<"fs", "promises">>, "Import"),
       Dep(<<"/", "abs", "z">>, "Require")},
      {Dep(<<"@s", "p", "x">>, "Export"), Dep(<<"b">>, "Import"),
       Dep(<<"..", "y">>, "Require")},
      {Dep(<<".", "x">>, "Import"), Dep(<<"..", "y">>, "ImportType"),
       Dep(<<"/", "abs", "z">>, "Require")} }

MainSources(c) ==
    IF c = "core"
    THEN {Parsed("Typescript", {Dep(<<"a">>, "Import"), Dep(<<".", "x">>, "Import")}),
          Unparsable}
    ELSE {Parsed(syntax, deps) : syntax \in {"Typescript", "Es"}, deps \in DepSets}
         \cup {Unparsable}

IndexSources(c) ==
    IF c = "core"
    THEN {Parsed("Es", {Dep(<<"a">>, "Require")})}
    ELSE {Parsed("Es", {Dep(<<"a">>, "Require")}), Unparsable}

BSources(c) == {Parsed("Es", {Dep(<<"c", "lib">>, "Import"), Dep(<<"fs">>, "Require")})}

ModuleSets(c) == {{}, {2}, {0, 3}}
ErrorSets(c) == {{}, {5}}

Manifest(deps, dev, peer, opt) ==
    [dependencies |-> deps, dev_dependencies |-> dev,
     peer_dependencies |-> peer, optional_dependencies |-> opt]

Manifests(c) ==
    IF c = "core"
    THEN {Manifest({PkgA}, {TypesA}, {}, {})}
    ELSE {Manifest({}, {}, {}, {}),
          Manifest({PkgA, PkgB}, {PkgC}, {}, {}),
          Manifest({PkgA}, {TypesA}, {}, {}),
          Manifest({TypesA, PkgFs}, {PkgB}, {PkgC}, {}),
          Manifest({PkgC}, {TypesA}, {}, {PkgA})}

Installed(peer, opt, bin_only) ==
    [peer_dependencies |-> peer, optional_dependencies |-> opt, bin_only |-> bin_only]

NodeModules(c) ==
    IF c = "core"
    THEN {[n \in {PkgA} |-> Installed({PkgB}, {TypesA}, FALSE)]}
    ELSE {[n \in {} |-> Installed({}, {}, FALSE)],
          [n \in {PkgA, PkgB} |->
              IF n = PkgA THEN Installed({PkgB, PkgFs}, {PkgC}, FALSE)
              ELSE Installed({PkgC}, {}, FALSE)],
          [n \in {PkgA, PkgC} |->
              IF n = PkgA THEN Installed({}, {TypesA}, FALSE)
              ELSE Installed({}, {}, TRUE)],
          [n \in {PkgA, PkgB, PkgC} |->
              IF n = PkgA THEN Installed({PkgB}, {}, FALSE)
              ELSE IF n = PkgB THEN Installed({PkgC}, {}, FALSE)
              ELSE Installed({}, {PkgA}, FALSE)]}

Config(patterns, skip_missing, ignore_bin_package) ==
    [ignore_patterns |-> patterns, skip_missing |-> skip_missing,
     ignore_bin_package |-> ignore_bin_package]

Configs(c) ==
    IF c = "core"
    THEN {Config(<< >>, FALSE, FALSE), Config(<<"b">>, FALSE, TRUE),
          Config(<<"[">>, FALSE, FALSE), Config(<<"b", "[">>, FALSE, FALSE)}
    ELSE {Config(<< >>, FALSE, FALSE), Config(<<"b">>, FALSE, TRUE),
          Config(<< >>, FALSE, TRUE), Config(<< >>, TRUE, FALSE),
          Config(<<"[">>, FALSE, FALSE), Config(<<"b", "[">>, TRUE, TRUE)}

NoEntry == << >>

\* The state before check_package is called.
Idle ==
    /\ main_pc = "start"
    /\ outcome = "none"
    /\ error_context = ""
    /\ pool_pc = "unspawned"
    /\ spawned = 0
    /\ joined = 0
    /\ worker_pc = [w \in Threads |-> "unspawned"]
    /\ worker_path = [w \in Threads |-> NoEntry]
    /\ lock = 0
    /\ file_channel = << >>
    /\ file_senders = 0
    /\ dependency_channel = << >>
    /\ dependency_senders = 0
    /\ walker_pc = [t \in Threads |-> "unspawned"]
    /\ walk_pending = {}
    /\ walk_stack = << >>
    /\ dependencies = EmptyMap
    /\ using_dependencies = EmptyMap
    /\ report = << >>
    /\ visited = {}
    /\ sent = {}
    /\ recv_count = [e \in EntryIds |-> 0]
    /\ messages = [e \in EntryIds |-> 0]
    /\ merged = [e \in EntryIds |-> 0]
    /\ merge_order = << >>

Init ==
    /\ crate \in {"core", "depcheck_core"}
    /\ config \in Configs(crate)
    /\ package \in Manifests(crate)
    /\ node_modules \in NodeModules(crate)
    /\ \E modules \in ModuleSets(crate), errors \in ErrorSets(crate) :
           tree = MakeTree(modules, errors)
    /\ \E m \in MainSources(crate), i \in IndexSources(crate), b \in BSources(crate) :
           sources = [e \in FileIds |-> IF e = 1 THEN m ELSE IF e = 4 THEN i ELSE b]
    /\ prev_result = << >>
    /\ Idle

(***************************************************************************)
(* crates/core: Checker::check_directory and spawn_file_senders.           *)
(***************************************************************************)
\* The Arc<Mutex<Receiver>> is owned by the pool thread's closure and cloned
\* into the workers it joins: the receiver lives until that closure ends.
ReceiverAlive == pool_pc # "done"

\* What the walk callback sends for an entry (checker.rs:183-213).
VisitSends(e) ==
    IF tree[e].error THEN << [kind |-> "Error", entry |-> e] >>
    ELSE IF tree[e].depth = 0 THEN << >>
    ELSE IF is_module(e) THEN << >>
    ELSE IF tree[e].file_type = "file" THEN << [kind |-> "Entry", entry |-> e] >>
    ELSE << >>

\* Mutant: a module directory is walked like any other directory.
VisitStateNoSkip(e) ==
    IF tree[e].error THEN (IF ReceiverAlive THEN "Continue" ELSE "Quit")
    ELSE IF tree[e].file_type = "file" /\ tree[e].depth > 0
         THEN (IF ReceiverAlive THEN "Continue" ELSE "Quit")
    ELSE "Continue"

\* The WalkState the callback returns.
VisitState(e) ==
    IF tree[e].error THEN (IF ReceiverAlive THEN "Continue" ELSE "Quit")
    ELSE IF tree[e].depth = 0 THEN "Continue"
    ELSE IF is_module(e) THEN "Skip"
    ELSE IF tree[e].file_type = "file"
         THEN (IF ReceiverAlive THEN "Continue" ELSE "Quit")
    ELSE "Continue"

\* The entries of a directory the walker hands on: those no override excludes.
Descend(e) ==
    IF tree[e].file_type = "dir" /\ ~tree[e].error
    THEN {c \in Children(e) : ~OverrideIgnores(c)}
    ELSE {}

\* check_directory, lines 68-75: a malformed pattern is returned as an Err
\* wrapped with the pattern.
MalformedPattern ==
    /\ crate = "core"
    /\ main_pc = "start"
    /\ MalformedPatterns # {}
    /\ main_pc' = "returned"
    /\ outcome' = "Err"
    /\ error_context' = config.ignore_patterns[FirstMalformed]
    /\ UNCHANGED <<inputs, merge_order, pool_pc, spawned, joined, worker_pc, worker_path, lock,
                   file_channel, file_senders, dependency_channel, dependency_senders,
                   walker_pc, walk_pending, walk_stack, dependencies,
                   using_dependencies, visited, sent, recv_count, messages, merged,
                   report, prev_result>>

\* Lines 77-99: the walker is built, both channels are created and the pool
\* thread is spawned.
SpawnPool ==
    /\ crate = "core"
    /\ main_pc = "start"
    /\ MalformedPatterns = {}
    /\ file_senders' = 1
    /\ dependency_senders' = 1
    /\ pool_pc' = "spawn"
    /\ main_pc' = "spawn_file_senders"
    /\ UNCHANGED <<inputs, merge_order, outcome, error_context, spawned, joined, worker_pc,
                   worker_path, lock, file_channel, dependency_channel, walker_pc,
                   walk_pending, walk_stack, dependencies, using_dependencies,
                   visited, sent, recv_count, messages, merged, report, prev_result>>

\* Lines 104-150: the pool thread spawns the next worker with its clones.
SpawnWorker ==
    /\ pool_pc = "spawn"
    /\ spawned < NumThreads
    /\ worker_pc' = [worker_pc EXCEPT ![spawned + 1] = "lock"]
    /\ dependency_senders' = dependency_senders + 1
    /\ spawned' = spawned + 1
    /\ pool_pc' = IF spawned + 1 = NumThreads THEN "join" ELSE "spawn"
    /\ UNCHANGED <<inputs, merge_order, main_pc, outcome, error_context, joined, worker_path, lock,
                   file_channel, file_senders, dependency_channel, walker_pc,
                   walk_pending, walk_stack, dependencies, using_dependencies,
                   visited, sent, recv_count, messages, merged, report, prev_result>>

\* Line 113: file_receiver.lock()
WorkerLock(w) ==
    /\ worker_pc[w] = "lock"
    /\ lock = 0
    /\ lock' = w
    /\ worker_pc' = [worker_pc EXCEPT ![w] = "recv"]
    /\ UNCHANGED <<inputs, merge_order, main_pc, outcome, error_context, pool_pc, spawned, joined,
                   worker_path, file_channel, file_senders, dependency_channel,
                   dependency_senders, walker_pc, walk_pending, walk_stack,
                   dependencies, using_dependencies, visited, sent, recv_count,
                   messages, merged, report, prev_result>>

\* Mutant: the guard is still held when the loop continues after a walk error.
LockKeptOnError(w, arm) == IF arm = "Error" THEN w ELSE 0

\* Mutant: drop(lock) is missing, the guard lives on while the file is parsed.
LockKeptOnEntry(w, arm) == IF arm = "Entry" THEN w ELSE 0

\* Mutant: the guard is leaked when the loop is left on a closed channel.
LockKeptOnBreak(w, arm) == IF arm = "Err" THEN w ELSE 0

\* The holder of the mutex once a worker that held it has left the match on
\* lock.recv(): the guard is dropped on every arm (drop(lock) at line 123, the
\* end of the loop body on continue and on break).
LockAfterRecv(w, arm) == 0

\* Where a worker goes after it received a walk error (line 117-119).
AfterError == "lock"

\* Lines 115-116, 123: an Entry is received and the guard dropped.
WorkerRecvEntry(w) ==
    /\ worker_pc[w] = "recv"
    /\ file_channel # << >>
    /\ Head(file_channel).kind = "Entry"
    /\ file_channel' = Tail(file_channel)
    /\ recv_count' = [recv_count EXCEPT ![Head(file_channel).entry] = @ + 1]
    /\ worker_path' = [worker_path EXCEPT ![w] = << Head(file_channel).entry >>]
    /\ lock' = LockAfterRecv(w, "Entry")
    /\ worker_pc' = [worker_pc EXCEPT ![w] = "extract"]
    /\ UNCHANGED <<inputs, merge_order, main_pc, outcome, error_context, pool_pc, spawned, joined,
                   file_senders, dependency_channel, dependency_senders, walker_pc,
                   walk_pending, walk_stack, dependencies, using_dependencies,
                   visited, sent, messages, merged, report, prev_result>>

\* Lines 117-119: a walk error is received; continue.
WorkerRecvError(w) ==
    /\ worker_pc[w] = "recv"
    /\ file_channel # << >>
    /\ Head(file_channel).kind = "Error"
    /\ file_channel' = Tail(file_channel)
    /\ recv_count' = [recv_count EXCEPT ![Head(file_channel).entry] = @ + 1]
    /\ lock' = LockAfterRecv(w, "Error")
    /\ worker_pc' = [worker_pc EXCEPT ![w] = AfterError]
    /\ dependency_senders' =
           IF AfterError = "exited" THEN dependency_senders - 1 ELSE dependency_senders
    /\ UNCHANGED <<inputs, merge_order, main_pc, outcome, error_context, pool_pc, spawned, joined,
                   worker_path, file_senders, dependency_channel, walker_pc,
                   walk_pending, walk_stack, dependencies, using_dependencies,
                   visited, sent, messages, merged, report, prev_result>>

\* Mutant: an empty channel is taken for a closed one (try_recv for recv).
DisconnectedWhenEmpty == file_channel = << >>

\* recv() fails once the channel is empty and every sender is dropped.
Disconnected == file_channel = << >> /\ file_senders = 0

\* Line 120: Err(_) => break; the worker's closure ends and drops its clones.
WorkerRecvClosed(w) ==
    /\ worker_pc[w] = "recv"
    /\ Disconnected
    /\ lock' = LockAfterRecv(w, "Err")
    /\ worker_pc' = [worker_pc EXCEPT ![w] = "exited"]
    /\ dependency_senders' = dependency_senders - 1
    /\ UNCHANGED <<inputs, merge_order, main_pc, outcome, error_context, pool_pc, spawned, joined,
                   worker_path, file_channel, file_senders, dependency_channel,
                   walker_pc, walk_pending, walk_stack, dependencies,
                   using_dependencies, visited, sent, recv_count, messages, merged,
                   report, prev_result>>

\* Mutant: a message is sent whether or not the file parsed.
WorkerMessagesUnchecked(e) ==
    << [file |-> StripPrefix(EntryPath(e), Directory)[1],
        names |-> FileDependencies(sources[e])] >>

\* Lines 126-145: what a worker sends for the entry it holds: one message when
\* the path is below the directory and the file parses, nothing otherwise.
WorkerMessages(e) ==
    LET file == StripPrefix(EntryPath(e), Directory) IN
    IF file # << >> /\ sources[e].parses
    THEN << [file |-> file[1], names |-> FileDependencies(sources[e])] >>
    ELSE << >>

\* Lines 124-145: parse, extract, send.
WorkerExtract(w) ==
    /\ worker_pc[w] = "extract"
    /\ LET e == worker_path[w][1] IN
       /\ dependency_channel' = dependency_channel \o WorkerMessages(e)
       /\ messages' = [messages EXCEPT ![e] = @ + Len(WorkerMessages(e))]
    /\ worker_path' = [worker_path EXCEPT ![w] = NoEntry]
    /\ worker_pc' = [worker_pc EXCEPT ![w] = "lock"]
    /\ UNCHANGED <<inputs, merge_order, main_pc, outcome, error_context, pool_pc, spawned, joined,
                   lock, file_channel, file_senders, dependency_senders, walker_pc,
                   walk_pending, walk_stack, dependencies, using_dependencies,
                   visited, sent, recv_count, merged, report, prev_result>>

\* Lines 152-155: the pool thread joins the handles in spawn order.
JoinWorker ==
    /\ pool_pc = "join"
    /\ joined < NumThreads
    /\ worker_pc[joined + 1] = "exited"
    /\ joined' = joined + 1
    /\ UNCHANGED <<inputs, merge_order, main_pc, outcome, error_context, pool_pc, spawned,
                   worker_pc, worker_path, lock, file_channel, file_senders,
                   dependency_channel, dependency_senders, walker_pc, walk_pending,
                   walk_stack, dependencies, using_dependencies, visited, sent,
                   recv_count, messages, merged, report, prev_result>>

\* Line 156: the pool closure ends; its dependency_sender and the receiver go.
PoolExit ==
    /\ pool_pc = "join"
    /\ joined = NumThreads
    /\ pool_pc' = "done"
    /\ dependency_senders' = dependency_senders - 1
    /\ UNCHANGED <<inputs, merge_order, main_pc, outcome, error_context, spawned, joined,
                   worker_pc, worker_path, lock, file_channel, file_senders,
                   dependency_channel, walker_pc, walk_pending, walk_stack,
                   dependencies, using_dependencies, visited, sent, recv_count,
                   messages, merged, report, prev_result>>

\* spawn_file_senders, lines 179-180: run() builds one callback, with its clone
\* of file_sender, per walker thread and starts the threads at the root.
StartWalk ==
    /\ main_pc = "spawn_file_senders"
    /\ walker_pc' = [t \in Threads |-> "run"]
    /\ file_senders' = file_senders + NumThreads
    /\ walk_pending' = {0}
    /\ main_pc' = "walking"
    /\ UNCHANGED <<inputs, merge_order, outcome, error_context, pool_pc, spawned, joined,
                   worker_pc, worker_path, lock, file_channel, dependency_channel,
                   dependency_senders, walk_stack, dependencies, using_dependencies,
                   visited, sent, recv_count, messages, merged, report, prev_result>>

\* Lines 181-213: a walker thread takes a found entry, runs the callback on it
\* and, on Continue, finds the entries of a directory.
WalkerVisit(t, e) ==
    /\ walker_pc[t] = "run"
    /\ e \in walk_pending
    /\ visited' = visited \cup {e}
    /\ file_channel' = IF ReceiverAlive THEN file_channel \o VisitSends(e)
                       ELSE file_channel
    /\ sent' = IF ReceiverAlive
               THEN sent \cup {VisitSends(e)[i].entry : i \in 1..Len(VisitSends(e))}
               ELSE sent
    /\ walk_pending' =
           IF VisitState(e) = "Quit" THEN {}
           ELSE (walk_pending \ {e})
                \cup (IF VisitState(e) = "Continue" THEN Descend(e) ELSE {})
    /\ UNCHANGED <<inputs, merge_order, main_pc, outcome, error_context, pool_pc, spawned, joined,
                   worker_pc, worker_path, lock, file_senders, dependency_channel,
                   dependency_senders, walker_pc, walk_stack, dependencies,
                   using_dependencies, recv_count, messages, merged, report,
                   prev_result>>

\* A walker thread ends when no entry is left; its callback and clone drop.
WalkerExit(t) ==
    /\ walker_pc[t] = "run"
    /\ walk_pending = {}
    /\ walker_pc' = [walker_pc EXCEPT ![t] = "done"]
    /\ file_senders' = file_senders - 1
    /\ UNCHANGED <<inputs, merge_order, main_pc, outcome, error_context, pool_pc, spawned, joined,
                   worker_pc, worker_path, lock, file_channel, dependency_channel,
                   dependency_senders, walk_pending, walk_stack, dependencies,
                   using_dependencies, visited, sent, recv_count, messages, merged,
                   report, prev_result>>

\* Mutant: spawn_file_senders borrows file_sender, which then outlives the join.
SendersWithBorrowed(senders) == senders

\* The live senders once spawn_file_senders, which takes file_sender by value
\* (line 177), has returned.
SendersAfterWalk(senders) == senders - 1

\* Line 158 returns: run() has joined the walker threads and file_sender, owned
\* by spawn_file_senders, is dropped.
WalkReturns ==
    /\ main_pc = "walking"
    /\ \A t \in Threads : walker_pc[t] = "done"
    /\ file_senders' = SendersAfterWalk(file_senders)
    /\ main_pc' = "join"
    /\ UNCHANGED <<inputs, merge_order, outcome, error_context, pool_pc, spawned, joined,
                   worker_pc, worker_path, lock, file_channel, dependency_channel,
                   dependency_senders, walker_pc, walk_pending, walk_stack,
                   dependencies, using_dependencies, visited, sent, recv_count,
                   messages, merged, report, prev_result>>

\* Mutant: the pool thread is not joined before the drain.
PoolNotJoined == TRUE

\* What handle.join() at line 160 waits for.
PoolJoined == pool_pc = "done"

\* Line 160: handle.join()
JoinPool ==
    /\ main_pc = "join"
    /\ PoolJoined
    /\ main_pc' = "drain"
    /\ UNCHANGED <<inputs, merge_order, outcome, error_context, pool_pc, spawned, joined,
                   worker_pc, worker_path, lock, file_channel, file_senders,
                   dependency_channel, dependency_senders, walker_pc, walk_pending,
                   walk_stack, dependencies, using_dependencies, visited, sent,
                   recv_count, messages, merged, report, prev_result>>

\* The entry a relative file belongs to.
EntryOfFile(file) == CHOOSE e \in EntryIds : EntryPath(e) = Directory \o file

\* Lines 162-169: one message is received and merged.
DrainMerge ==
    /\ main_pc = "drain"
    /\ dependency_channel # << >>
    /\ LET message == Head(dependency_channel) IN
       /\ using_dependencies' =
              MergeFile(using_dependencies, message.file, message.names)
       /\ merged' = [merged EXCEPT ![EntryOfFile(message.file)] = @ + 1]
       /\ merge_order' = Append(merge_order, message.file)
    /\ dependency_channel' = Tail(dependency_channel)
    /\ UNCHANGED <<inputs, main_pc, outcome, error_context, pool_pc, spawned, joined,
                   worker_pc, worker_path, lock, file_channel, file_senders,
                   dependency_senders, walker_pc, walk_pending, walk_stack,
                   dependencies, visited, sent, recv_count, messages, report,
                   prev_result>>

\* Lines 162, 171: recv() fails on the closed, empty channel; Ok(map).
DrainEnd ==
    /\ main_pc = "drain"
    /\ dependency_channel = << >>
    /\ dependency_senders = 0
    /\ main_pc' = "returned"
    /\ outcome' = "Ok"
    /\ UNCHANGED <<inputs, merge_order, error_context, pool_pc, spawned, joined, worker_pc,
                   worker_path, lock, file_channel, file_senders, dependency_channel,
                   dependency_senders, walker_pc, walk_pending, walk_stack,
                   dependencies, using_dependencies, visited, sent, recv_count,
                   messages, merged, report, prev_result>>

\* The caller checks the same, unchanged project again with a fresh Checker.
CheckAgain ==
    /\ crate = "core"
    /\ main_pc = "returned"
    /\ outcome = "Ok"
    /\ prev_result = << >>
    /\ prev_result' = << [map |-> using_dependencies, order |-> merge_order] >>
    /\ merge_order' = << >>
    /\ main_pc' = "start"
    /\ outcome' = "none"
    /\ pool_pc' = "unspawned"
    /\ spawned' = 0
    /\ joined' = 0
    /\ worker_pc' = [w \in Threads |-> "unspawned"]
    /\ walker_pc' = [t \in Threads |-> "unspawned"]
    /\ using_dependencies' = EmptyMap
    /\ visited' = {}
    /\ sent' = {}
    /\ recv_count' = [e \in EntryIds |-> 0]
    /\ messages' = [e \in EntryIds |-> 0]
    /\ merged' = [e \in EntryIds |-> 0]
    /\ UNCHANGED <<inputs, error_context, worker_path, lock, file_channel,
                   file_senders, dependency_channel, dependency_senders,
                   walk_pending, walk_stack, dependencies, report>>

(***************************************************************************)
(* crates/depcheck_core: Checker::check_package, check_directory and the   *)
(* CheckResult queries.                                                    *)
(***************************************************************************)
\* The orders in which a directory's entries may be read.
Orders(S) ==
    {order \in [1..Cardinality(S) -> S] :
        \A i, j \in 1..Cardinality(S) : order[i] = order[j] => i = j}

\* The order of path components, as strings compare.
SegmentOrder == <<"b", "index", "main", "pkg", "sub">>
SegmentRank(segment) == CHOOSE i \in 1..Len(SegmentOrder) : SegmentOrder[i] = segment

RECURSIVE PathLess(_, _)
\* Ord of RelativePathBuf: the order in which a BTreeMap iterates its keys.
PathLess(p, q) ==
    IF p = << >> THEN q # << >>
    ELSE IF q = << >> THEN FALSE
    ELSE IF Head(p) = Head(q) THEN PathLess(Tail(p), Tail(q))
    ELSE SegmentRank(Head(p)) < SegmentRank(Head(q))

FirstKey(map) == CHOOSE f \in DOMAIN map : \A g \in DOMAIN map : g = f \/ PathLess(f, g)

\* Lines 78-81: filter_entry keeps the root and whatever is no module.
FilterEntry(e) == tree[e].depth = 0 \/ ~is_module(e)

\* Lines 91-102: the (file, names) pair the iterator chain yields for an entry
\* the walker hands out: errors are dropped, then non-files, then files that
\* do not parse.
Extracted(e) ==
    LET file == StripPrefix(EntryPath(e), Directory) IN
    IF ~tree[e].error /\ tree[e].file_type = "file" /\ file # << >>
       /\ sources[e].parses
    THEN << [file |-> file[1], names |-> FileDependencies(sources[e])] >>
    ELSE << >>

\* Lines 66-71: add(..).unwrap() panics on a malformed pattern.
PatternPanic ==
    /\ crate = "depcheck_core"
    /\ main_pc = "start"
    /\ MalformedPatterns # {}
    /\ main_pc' = "returned"
    /\ outcome' = "panic"
    /\ UNCHANGED <<inputs, merge_order, error_context, pool_pc, spawned, joined, worker_pc,
                   worker_path, lock, file_channel, file_senders, dependency_channel,
                   dependency_senders, walker_pc, walk_pending, walk_stack,
                   dependencies, using_dependencies, visited, sent, recv_count,
                   messages, merged, report, prev_result>>

\* Lines 73-87: the overrides and the walker are built.
BuildWalker ==
    /\ crate = "depcheck_core"
    /\ main_pc = "start"
    /\ MalformedPatterns = {}
    /\ walk_stack' = << 0 >>
    /\ main_pc' = "iterate"
    /\ UNCHANGED <<inputs, merge_order, outcome, error_context, pool_pc, spawned, joined,
                   worker_pc, worker_path, lock, file_channel, file_senders,
                   dependency_channel, dependency_senders, walker_pc, walk_pending,
                   dependencies, using_dependencies, visited, sent, recv_count,
                   messages, merged, report, prev_result>>

\* Lines 89-181: the walker yields its next entry, depth first, and the
\* iterator chain runs on it up to the insertion into the collected map.
WalkNext ==
    /\ main_pc = "iterate"
    /\ walk_stack # << >>
    /\ LET e == Head(walk_stack)
           kept == IF FilterEntry(e) THEN Descend(e) ELSE {}
           found == IF FilterEntry(e) THEN Extracted(e) ELSE << >>
       IN /\ \E order \in Orders(kept) : walk_stack' = order \o Tail(walk_stack)
          /\ visited' = visited \cup {e}
          /\ dependencies' =
                 [f \in DOMAIN dependencies \cup {found[i].file : i \in 1..Len(found)} |->
                     IF f \in DOMAIN dependencies THEN dependencies[f]
                     ELSE found[1].names]
          /\ messages' = [messages EXCEPT ![e] = @ + Len(found)]
    /\ UNCHANGED <<inputs, merge_order, main_pc, outcome, error_context, pool_pc, spawned, joined,
                   worker_pc, worker_path, lock, file_channel, file_senders,
                   dependency_channel, dependency_senders, walker_pc, walk_pending,
                   using_dependencies, sent, recv_count, merged, report, prev_result>>

\* Line 181: the walk is over and check_directory returns the collected map.
Collected ==
    /\ main_pc = "iterate"
    /\ walk_stack = << >>
    /\ main_pc' = "fold"
    /\ UNCHANGED <<inputs, merge_order, outcome, error_context, pool_pc, spawned, joined,
                   worker_pc, worker_path, lock, file_channel, file_senders,
                   dependency_channel, dependency_senders, walker_pc, walk_pending,
                   walk_stack, dependencies, using_dependencies, visited, sent,
                   recv_count, messages, merged, report, prev_result>>

\* check_package, lines 44-51: the next file of the map, in key order, is folded.
FoldFile ==
    /\ main_pc = "fold"
    /\ DOMAIN dependencies # {}
    /\ LET file == FirstKey(dependencies) IN
       /\ using_dependencies' = MergeFile(using_dependencies, file, dependencies[file])
       /\ dependencies' = [f \in DOMAIN dependencies \ {file} |-> dependencies[f]]
       /\ merged' = [merged EXCEPT ![EntryOfFile(file)] = @ + 1]
       /\ merge_order' = Append(merge_order, file)
    /\ UNCHANGED <<inputs, main_pc, outcome, error_context, pool_pc, spawned, joined,
                   worker_pc, worker_path, lock, file_channel, file_senders,
                   dependency_channel, dependency_senders, walker_pc, walk_pending,
                   walk_stack, visited, sent, recv_count, messages, report,
                   prev_result>>

\* Lines 53-58: Ok(CheckResult)
ReturnResult ==
    /\ main_pc = "fold"
    /\ DOMAIN dependencies = {}
    /\ main_pc' = "returned"
    /\ outcome' = "Ok"
    /\ UNCHANGED <<inputs, merge_order, error_context, pool_pc, spawned, joined, worker_pc,
                   worker_path, lock, file_channel, file_senders, dependency_channel,
                   dependency_senders, walker_pc, walk_pending, walk_stack,
                   dependencies, using_dependencies, visited, sent, recv_count,
                   messages, merged, report, prev_result>>

\* A name passes the bin-only filter of the queries.
NotBinFiltered(name) == ~config.ignore_bin_package \/ ~is_bin_dependency(name)

\* Mutant: the ignore patterns are not applied to the missing names.
MissingWithoutIgnore ==
    IF config.skip_missing THEN EmptyMap
    ELSE [d \in {k \in DOMAIN using_dependencies :
                    /\ ~is_any_dependency(k)
                    /\ NotBinFiltered(k)} |-> using_dependencies[d]]

\* Mutant: only dependencies and devDependencies count as declared.
MissingOnlyDirect ==
    IF config.skip_missing THEN EmptyMap
    ELSE [d \in {k \in DOMAIN using_dependencies :
                    /\ ~IgnoreMatches(k)
                    /\ ~(is_dependency(k) \/ is_dev_dependency(k))
                    /\ NotBinFiltered(k)} |-> using_dependencies[d]]

\* CheckResult::get_missing_dependencies
get_missing_dependencies ==
    IF config.skip_missing THEN EmptyMap
    ELSE [d \in {k \in DOMAIN using_dependencies :
                    /\ ~IgnoreMatches(k)
                    /\ ~is_any_dependency(k)
                    /\ NotBinFiltered(k)} |-> using_dependencies[d]]

\* Mutant: the bin-only filter is applied whatever the configuration says.
FilterUnusedAlwaysBin(declared) ==
    {d \in declared :
        /\ ~IgnoreMatches(d)
        /\ d \notin DOMAIN using_dependencies
        /\ ~is_bin_dependency(d)}

\* CheckResult::filter_unused_dependencies
filter_unused_dependencies(declared) ==
    {d \in declared :
        /\ ~IgnoreMatches(d)
        /\ d \notin DOMAIN using_dependencies
        /\ NotBinFiltered(d)}

get_unused_dependencies == filter_unused_dependencies(package.dependencies)
get_unused_dev_dependencies == filter_unused_dependencies(package.dev_dependencies)

\* The caller reads the three sets off the CheckResult.
Report ==
    /\ crate = "depcheck_core"
    /\ main_pc = "returned"
    /\ outcome = "Ok"
    /\ report = << >>
    /\ report' = << [missing |-> get_missing_dependencies,
                     unused_dependencies |-> get_unused_dependencies,
                     unused_dev_dependencies |-> get_unused_dev_dependencies] >>
    /\ UNCHANGED <<inputs, merge_order, main_pc, outcome, error_context, pool_pc, spawned, joined,
                   worker_pc, worker_path, lock, file_channel, file_senders,
                   dependency_channel, dependency_senders, walker_pc, walk_pending,
                   walk_stack, dependencies, using_dependencies, visited, sent,
                   recv_count, messages, merged, prev_result>>

(***************************************************************************)
(* The specification.                                                      *)
(***************************************************************************)
Next ==
    \/ MalformedPattern
    \/ SpawnPool
    \/ SpawnWorker
    \/ \E w \in Threads : WorkerLock(w)
    \/ \E w \in Threads : WorkerRecvEntry(w)
    \/ \E w \in Threads : WorkerRecvError(w)
    \/ \E w \in Threads : WorkerRecvClosed(w)
    \/ \E w \in Threads : WorkerExtract(w)
    \/ JoinWorker
    \/ PoolExit
    \/ StartWalk
    \/ \E t \in Threads, e \in EntryIds : WalkerVisit(t, e)
    \/ \E t \in Threads : WalkerExit(t)
    \/ WalkReturns
    \/ JoinPool
    \/ DrainMerge
    \/ DrainEnd
    \/ CheckAgain
    \/ PatternPanic
    \/ BuildWalker
    \/ WalkNext
    \/ Collected
    \/ FoldFile
    \/ ReturnResult
    \/ Report

Spec == Init /\ [][Next]_vars

(***************************************************************************)
(* The core crate alone, under the scheduler's fairness: every thread that *)
(* can take a step eventually takes one.                                   *)
(***************************************************************************)
CoreInit == Init /\ crate = "core"

MainThread ==
    \/ MalformedPattern
    \/ SpawnPool
    \/ StartWalk
    \/ WalkReturns
    \/ JoinPool
    \/ DrainMerge
    \/ DrainEnd

PoolThread ==
    \/ SpawnWorker
    \/ JoinWorker
    \/ PoolExit

Worker(w) ==
    \/ WorkerLock(w)
    \/ WorkerRecvEntry(w)
    \/ WorkerRecvError(w)
    \/ WorkerRecvClosed(w)
    \/ WorkerExtract(w)

Walker(t) ==
    \/ \E e \in EntryIds : WalkerVisit(t, e)
    \/ WalkerExit(t)

CoreNext ==
    \/ MainThread
    \/ PoolThread
    \/ \E w \in Threads : Worker(w)
    \/ \E t \in Threads : Walker(t)
    \/ CheckAgain

FairSpec ==
    /\ CoreInit
    /\ [][CoreNext]_vars
    /\ WF_vars(MainThread)
    /\ WF_vars(PoolThread)
    /\ \A w \in Threads : WF_vars(Worker(w))
    /\ \A t \in Threads : WF_vars(Walker(t))

(***************************************************************************)
(* What a run is expected to produce, read off the inputs alone.           *)
(***************************************************************************)
\* The path of an entry relative to the project directory.
RelativePath(e) == SubSeq(EntryPath(e), Len(Directory) + 1, Len(EntryPath(e)))

RECURSIVE StrictAncestors(_)
\* The directories above an entry, up to the root.
StrictAncestors(e) ==
    IF tree[e].depth = 0 THEN {}
    ELSE {tree[e].parent} \cup StrictAncestors(tree[e].parent)

\* The entry is below the root and neither it nor a directory above it (the
\* root aside) is a module, is excluded by an override or failed to be read.
Emitted(e) ==
    /\ tree[e].depth > 0
    /\ ~tree[e].error
    /\ tree[e].file_type = "file"
    /\ \A a \in (StrictAncestors(e) \cup {e}) \ {0} :
           ~is_module(a) /\ ~OverrideIgnores(a) /\ ~tree[a].error

Contributes(e) == e \in FileIds /\ Emitted(e) /\ sources[e].parses

\* The name-set extracted for a file that parses.
NamesOf(e) == FileDependencies(sources[e])

ExpectedKeys == UNION {NamesOf(e) : e \in {x \in FileIds : Contributes(x)}}

ExpectedUsage ==
    [d \in ExpectedKeys |->
        {RelativePath(e) : e \in {x \in FileIds : Contributes(x) /\ d \in NamesOf(x)}}]

RECURSIVE Yielded(_)
\* The entries the sequential walker hands to the iterator chain from e down.
Yielded(e) ==
    IF FilterEntry(e) THEN {e} \cup UNION {Yielded(c) : c \in Descend(e)} ELSE {}

\* The map depcheck_core's check_directory collects.
SequentialCollected ==
    LET pairs == {Extracted(e)[1] : e \in {x \in Yielded(0) : Extracted(x) # << >>}} IN
    [f \in {pair.file : pair \in pairs} |->
        (CHOOSE pair \in pairs : pair.file = f).names]

RECURSIVE SequentialFold(_, _)
\* The fold of check_package over the collected map, in key order.
SequentialFold(map, collected) ==
    IF DOMAIN collected = {} THEN map
    ELSE LET file == FirstKey(collected) IN
         SequentialFold(MergeFile(map, file, collected[file]),
                        [f \in DOMAIN collected \ {file} |-> collected[f]])

SequentialUsage == SequentialFold(EmptyMap, SequentialCollected)

ReturnedOk == main_pc = "returned" /\ outcome = "Ok"
WorkersExited == \A w \in Threads : worker_pc[w] = "exited"
InFlight == {file_channel[i].entry : i \in 1..Len(file_channel)}

(***************************************************************************)
(* Claims.                                                                 *)
(***************************************************************************)
\* C1: a second run of check_directory on the same tree, manifest and
\* configuration returns the usage map the first run returned, whatever the
\* order in which the files were received, extracted and merged in each run.
C1_SameResultEveryRun ==
    (crate = "core" /\ ReturnedOk /\ prev_result # << >>)
        => using_dependencies = prev_result[1].map

\* C1 witness: two runs that merged at least two files in different orders.
C1_Witness ==
    /\ crate = "core" /\ ReturnedOk /\ prev_result # << >>
    /\ Len(merge_order) >= 2
    /\ merge_order # prev_result[1].order
    /\ DOMAIN using_dependencies # {}

\* C2: every item sent on the work channel is received at most once at any
\* time, is either still in the channel or received exactly once, and is
\* received exactly once by the time every worker has exited.
C2_ExactlyOnceDelivery ==
    crate = "core" =>
        /\ \A e \in EntryIds :
              /\ recv_count[e] <= 1
              /\ recv_count[e] = 1 => e \in sent /\ e \notin InFlight
              /\ (e \in sent /\ recv_count[e] = 0) => e \in InFlight
        /\ \A i, j \in 1..Len(file_channel) :
              file_channel[i].entry = file_channel[j].entry => i = j
        /\ \A w \in Threads : worker_path[w] # NoEntry => recv_count[worker_path[w][1]] = 1
        /\ \A v, w \in Threads :
              (worker_path[v] # NoEntry /\ worker_path[v] = worker_path[w]) => v = w
        /\ WorkersExited => (\A e \in sent : recv_count[e] = 1) /\ file_channel = << >>

\* C2 witness: all workers have exited after two or more entries were sent
\* while both workers were running.
C2_Witness ==
    /\ crate = "core" /\ WorkersExited
    /\ Cardinality({e \in sent : ~tree[e].error}) >= 2
    /\ \A e \in sent : recv_count[e] = 1

\* C3: on return the usage map holds file f under name d exactly when f is a
\* file the walker emitted, f parsed and d is in the name-set extracted for
\* f; every message sent on the result channel was merged exactly once and
\* none is left; and the map is the one the sequential fold of check_package
\* builds.
C3_UsageMapIsTheFold ==
    ReturnedOk =>
        /\ \A d \in DOMAIN using_dependencies \cup ExpectedKeys, e \in EntryIds \ {0} :
              (d \in DOMAIN using_dependencies /\ RelativePath(e) \in using_dependencies[d])
                  <=> (Contributes(e) /\ d \in NamesOf(e))
        /\ \A d \in DOMAIN using_dependencies :
              using_dependencies[d] \subseteq {RelativePath(e) : e \in EntryIds \ {0}}
        /\ \A e \in EntryIds :
              /\ messages[e] = (IF Contributes(e) THEN 1 ELSE 0)
              /\ merged[e] = messages[e]
        /\ dependency_channel = << >>
        /\ DOMAIN dependencies = {}
        /\ using_dependencies = ExpectedUsage
        /\ using_dependencies = SequentialUsage

\* C3 witness: the parallel run returned a map with a name used by two files.
C3_Witness ==
    /\ crate = "core" /\ ReturnedOk
    /\ \E d \in DOMAIN using_dependencies : Cardinality(using_dependencies[d]) >= 2
    /\ Cardinality({e \in EntryIds : merged[e] = 1}) >= 3

\* C4: once the walk is over and every sender of the work channel is dropped,
\* the workers exit, the joins complete, the drain ends and check_directory
\* returns; and in no state before the return is every thread stuck.
C4_Terminates ==
    /\ [](main_pc # "returned" => ENABLED CoreNext)
    /\ (main_pc = "join" /\ file_senders = 0)
           ~> (ReturnedOk /\ WorkersExited /\ pool_pc = "done"
               /\ dependency_channel = << >> /\ dependency_senders = 0)

\* C4 witness: the walk is over, the senders are dropped and a worker still
\* has an item to take from the channel.
C4_Witness ==
    /\ main_pc = "join" /\ file_senders = 0
    /\ file_channel # << >>
    /\ \E w \in Threads : worker_pc[w] = "extract"

\* C5: nothing is received from the result channel, and nothing merged into
\* the usage map, before every worker and the pool thread have ended; the
\* map returned is the one reached with the result channel closed and empty.
C5_MergeAfterWorkers ==
    crate = "core" =>
        /\ (main_pc = "drain" \/ (\E e \in EntryIds : merged[e] > 0)
            \/ DOMAIN using_dependencies # {})
               => (WorkersExited /\ pool_pc = "done")
        /\ ReturnedOk => (dependency_channel = << >> /\ dependency_senders = 0)

\* C5 witness: the drain is under way with a message merged and one waiting.
C5_Witness ==
    /\ main_pc = "drain"
    /\ \E e \in EntryIds : merged[e] > 0
    /\ dependency_channel # << >>

\* C6: with a malformed ignore pattern the check ends before anything is
\* walked or spawned, and the caller gets an error value whose context is the
\* pattern.
C6_MalformedPatternIsAnError ==
    MalformedPatterns # {} =>
        /\ visited = {} /\ sent = {}
        /\ file_channel = << >> /\ dependency_channel = << >>
        /\ spawned = 0 /\ pool_pc = "unspawned"
        /\ \A t \in Threads : walker_pc[t] = "unspawned" /\ worker_pc[t] = "unspawned"
        /\ main_pc \in {"start", "returned"}
        /\ main_pc = "returned" =>
               (outcome = "Err" /\ error_context = config.ignore_patterns[FirstMalformed])

\* C7: a file whose parse fails has no message sent for it, is in no file set
\* and in no collected map; the run still returns Ok, with every other
\* contributing file recorded under each of its names.
C7_ParseFailureIsSkipped ==
    /\ \A e \in FileIds :
          ~sources[e].parses =>
              /\ messages[e] = 0 /\ merged[e] = 0
              /\ \A i \in 1..Len(dependency_channel) :
                     dependency_channel[i].file # RelativePath(e)
              /\ RelativePath(e) \notin DOMAIN dependencies
              /\ \A d \in DOMAIN using_dependencies :
                     RelativePath(e) \notin using_dependencies[d]
    /\ (main_pc = "returned" /\ MalformedPatterns = {}) =>
          /\ outcome = "Ok"
          /\ crate = "core" => \A e \in sent : recv_count[e] = 1
          /\ \A x \in FileIds :
                Contributes(x) =>
                    /\ merged[x] = 1
                    /\ \A d \in NamesOf(x) :
                           d \in DOMAIN using_dependencies
                           /\ RelativePath(x) \in using_dependencies[d]

\* C7 witness: the parallel run returned after a worker received a file that
\* does not parse and a file that does.
C7_Witness ==
    /\ crate = "core" /\ ReturnedOk
    /\ \E e \in FileIds : ~sources[e].parses /\ recv_count[e] = 1
    /\ \E x \in FileIds : Contributes(x) /\ merged[x] = 1 /\ NamesOf(x) # {}

\* C8: a walk error stops neither the walk nor a worker: the mutex is held
\* only by a worker inside recv, workers exit only on a closed channel, the
\* error adds nothing to the map, every emitted file is sent, received and
\* merged, and once an error is in the channel the run goes on to return Ok.
C8_WalkErrorIsSkipped ==
    /\ [](/\ \A w \in Threads : lock = w => worker_pc[w] = "recv"
          /\ \A w \in Threads : worker_pc[w] = "exited" => file_senders = 0
          /\ \A e \in EntryIds :
                tree[e].error =>
                    /\ messages[e] = 0
                    /\ \A d \in DOMAIN using_dependencies :
                           RelativePath(e) \notin using_dependencies[d]
          /\ main_pc \in {"join", "drain"} \/ ReturnedOk =>
                \A e \in EntryIds : Emitted(e) => e \in sent
          /\ ReturnedOk =>
                /\ WorkersExited
                /\ \A e \in sent : recv_count[e] = 1
                /\ \A e \in FileIds : Contributes(e) => merged[e] = 1)
    /\ (\E e \in InFlight : tree[e].error) ~> ReturnedOk

\* C8 witness: a walk error was received while a file entry sent after it is
\* waiting, and the mutex is free again.
C8_Witness ==
    /\ \E e \in EntryIds : tree[e].error /\ recv_count[e] = 1
    /\ file_channel # << >>
    /\ lock = 0
    /\ \E w \in Threads : worker_pc[w] = "lock"

\* C9: nothing inside a module directory below the root is handed to the walk
\* callback, sent, extracted or recorded, at any depth; only files are sent as
\* entries; and the root is descended even when it is a module itself.
C9_ModuleContentsNeverVisited ==
    /\ \A e \in EntryIds :
          (\E a \in StrictAncestors(e) \ {0} : is_module(a)) =>
              /\ e \notin visited /\ e \notin sent /\ e \notin walk_pending
              /\ \A i \in 1..Len(walk_stack) : walk_stack[i] # e
              /\ messages[e] = 0
              /\ RelativePath(e) \notin DOMAIN dependencies
              /\ \A d \in DOMAIN using_dependencies :
                     RelativePath(e) \notin using_dependencies[d]
    /\ \A e \in sent :
          tree[e].error \/ (tree[e].file_type = "file" /\ ~is_module(e))
    /\ \A i \in 1..Len(file_channel) :
          file_channel[i].kind = "Entry" =>
              (tree[file_channel[i].entry].file_type = "file"
               /\ ~tree[file_channel[i].entry].error)
    /\ \A d \in DOMAIN using_dependencies :
          using_dependencies[d] \subseteq {RelativePath(e) : e \in FileIds}
    /\ ReturnedOk => ({0} \cup Descend(0)) \subseteq visited

\* C9 witness: the root and a nested directory are modules; the run returned
\* having sent a file of the root and visited the nested module directory.
C9_Witness ==
    /\ crate = "core" /\ ReturnedOk
    /\ is_module(0) /\ is_module(3)
    /\ 1 \in sent /\ 3 \in visited /\ 4 \notin visited

\* The files that import package P: emitted, parsed, with a specifier whose
\* package name is P.
Importers(P) ==
    {RelativePath(e) :
        e \in {x \in FileIds :
                 /\ Contributes(x)
                 /\ \E r \in sources[x].deps :
                        IsExternal(r.specifier) /\ extract_package_name(r.specifier) = P}}

ImportedNames ==
    UNION {{extract_package_name(r.specifier) :
               r \in {q \in sources[e].deps : IsExternal(q.specifier)}} :
           e \in {x \in FileIds : Contributes(x)}}

\* C10: with the missing computation on, every imported package name (not a
\* built-in module) that is in none of the four manifest mappings, not
\* ignored and not bin-only is a key of the missing map, mapped to exactly
\* the files that import it, whatever the import kind and the dialect.
C10_EveryUndeclaredImportIsMissing ==
    (report # << >> /\ ~config.skip_missing) =>
        \A P \in ImportedNames :
            (/\ ~is_core_module(P)
             /\ ~is_any_dependency(P)
             /\ ~IgnoreMatches(P)
             /\ ~is_bin_dependency(P))
                => /\ P \in DOMAIN report[1].missing
                   /\ report[1].missing[P] = Importers(P)

\* The names of the four mappings of the root manifest.
DeclaredAnywhere ==
    package.dependencies \cup package.dev_dependencies
    \cup package.peer_dependencies \cup package.optional_dependencies

\* The name's installed manifest declares a binary and no importable entry,
\* and the bin-only filter is on.
BinOnlyExcluded(name) ==
    config.ignore_bin_package /\ name \in DOMAIN node_modules /\ node_modules[name].bin_only

\* C11: the missing map read off a result holds exactly the usage-map keys
\* that are in none of the four manifest mappings, are matched by no ignore
\* pattern and are not excluded as bin-only, each with its whole file set of
\* the usage map; with skipMissing on it is empty.
C11_MissingIsUndeclaredUsage ==
    report # << >> =>
        /\ config.skip_missing => report[1].missing = EmptyMap
        /\ ~config.skip_missing =>
              /\ DOMAIN report[1].missing =
                     {k \in DOMAIN using_dependencies :
                         /\ k \notin DeclaredAnywhere
                         /\ ~IgnoreMatches(k)
                         /\ ~BinOnlyExcluded(k)}
              /\ \A k \in DOMAIN report[1].missing :
                     report[1].missing[k] = using_dependencies[k]

\* C11 witness: a result whose usage map holds an undeclared name reported
\* missing, an undeclared name an ignore pattern matches and a name declared
\* as peer or optional dependency only.
C11_Witness ==
    /\ report # << >> /\ ~config.skip_missing
    /\ DOMAIN report[1].missing # {}
    /\ \E k \in DOMAIN using_dependencies : IgnoreMatches(k) /\ k \notin DeclaredAnywhere
    /\ \E k \in DOMAIN using_dependencies :
           k \in package.peer_dependencies \cup package.optional_dependencies
           /\ k \notin package.dependencies \cup package.dev_dependencies

\* C11, the skipped case: skipMissing is on and the usage map holds an undeclared name.
C11_Skipped ==
    /\ report # << >> /\ config.skip_missing
    /\ \E k \in DOMAIN using_dependencies : k \notin DeclaredAnywhere

\* C12: the unused dependencies of a result are exactly the names of the
\* dependencies mapping that are no key of the usage map, are matched by no
\* ignore pattern and are not excluded as bin-only, and the unused
\* devDependencies the same over devDependencies; a declared name no file
\* references, not ignored and not bin-only, is reported, and no usage-map
\* key is.
C12_UnusedIsDeclaredUnreferenced ==
    report # << >> =>
        /\ report[1].unused_dependencies =
               {d \in package.dependencies :
                   /\ d \notin DOMAIN using_dependencies
                   /\ ~IgnoreMatches(d)
                   /\ ~BinOnlyExcluded(d)}
        /\ report[1].unused_dev_dependencies =
               {d \in package.dev_dependencies :
                   /\ d \notin DOMAIN using_dependencies
                   /\ ~IgnoreMatches(d)
                   /\ ~BinOnlyExcluded(d)}
        /\ \A d \in package.dependencies :
               (/\ \A e \in FileIds : ~(Contributes(e) /\ d \in NamesOf(e))
                /\ ~IgnoreMatches(d)
                /\ ~(d \in DOMAIN node_modules /\ node_modules[d].bin_only))
                   => d \in report[1].unused_dependencies
        /\ \A k \in DOMAIN using_dependencies :
               k \notin report[1].unused_dependencies
               /\ k \notin report[1].unused_dev_dependencies

\* C12 witness: dependencies {a, b} with only a referenced: b alone is
\* reported unused, and a bin-only devDependency is reported with the filter
\* off.
C12_Witness ==
    /\ report # << >>
    /\ package.dependencies = {PkgA, PkgB}
    /\ PkgA \in DOMAIN using_dependencies
    /\ report[1].unused_dependencies = {PkgB}
    /\ \E d \in report[1].unused_dev_dependencies :
           d \in DOMAIN node_modules /\ node_modules[d].bin_only

\* The external raw dependencies of a file.
External(x) == {r \in sources[x].deps : IsExternal(r.specifier)}

\* The names the usage map credits a file with.
CreditedTo(x) ==
    {k \in DOMAIN using_dependencies : RelativePath(x) \in using_dependencies[k]}

\* The type-stub package of a name, and whether the root manifest declares it
\* as dependency or devDependency.
StubOf(n) == <<"@types">> \o n
StubDeclared(n) == StubOf(n) \in package.dependencies \cup package.dev_dependencies

\* The name passes the built-in and bin-only filters.
Survives(n) == n \notin CoreModules /\ ~BinOnlyExcluded(n)

\* Another import of the file than d yields the name k.
OtherImportYields(x, d, k) ==
    \E r \in External(x) \ {d} : k \in TypeNames(r, sources[x].syntax)

\* The name k is a declared peer or optional dependency of the installed
\* manifest of another name the file's imports yield.
ForwardedTo(x, k) ==
    \E r \in External(x) :
        \E m \in TypeNames(r, sources[x].syntax) \ {k} :
            /\ Survives(m) /\ m \in DOMAIN node_modules
            /\ k \in node_modules[m].peer_dependencies
                      \cup node_modules[m].optional_dependencies
            /\ k \in package.dependencies \cup package.dev_dependencies

\* C13: in a TypeScript file a type-only import of pkg whose @types/pkg is a
\* dependency or devDependency of the root manifest credits the file with
\* @types/pkg and not with pkg (pkg is credited to the file only when
\* another import of the file yields it or forwarding brings it in); in any
\* other dialect the import credits pkg and not @types/pkg.
C13_TypeOnlyImportCreditsStub ==
    ReturnedOk =>
        \A x \in {e \in FileIds : Contributes(e)} :
            \A d \in External(x) :
                LET pkg == extract_package_name(d.specifier) IN
                /\ (/\ sources[x].syntax = "Typescript"
                    /\ d.kind = "ImportType"
                    /\ StubDeclared(pkg))
                       => /\ Survives(StubOf(pkg)) => StubOf(pkg) \in CreditedTo(x)
                          /\ pkg \in CreditedTo(x) =>
                                 (OtherImportYields(x, d, pkg) \/ ForwardedTo(x, pkg))
                /\ sources[x].syntax # "Typescript"
                       => /\ Survives(pkg) => pkg \in CreditedTo(x)
                          /\ StubOf(pkg) \in CreditedTo(x) =>
                                 (OtherImportYields(x, d, StubOf(pkg))
                                  \/ ForwardedTo(x, StubOf(pkg)))

\* C13 witness: a TypeScript file whose type-only import of a is credited as
\* @types/a and not as a, while another file is credited with a.
C13_Witness ==
    /\ ReturnedOk
    /\ sources[1].syntax = "Typescript"
    /\ Dep(PkgA, "ImportType") \in sources[1].deps
    /\ TypesA \in CreditedTo(1)
    /\ PkgA \notin CreditedTo(1)
    /\ PkgA \in DOMAIN using_dependencies

\* C13, the other dialect: the same import in a file that is not TypeScript
\* is credited as a alone though @types/a is declared.
C13_OtherDialect ==
    /\ ReturnedOk
    /\ sources[1].syntax = "Es"
    /\ Dep(PkgA, "ImportType") \in sources[1].deps
    /\ StubDeclared(PkgA)
    /\ CreditedTo(1) = {PkgA}

\* C14: in a TypeScript file a value import of n credits the file with n and
\* with the type stub of n when the stub is a dependency or devDependency of
\* the root manifest, and with n and not the stub when it is not; whether n
\* is declared plays no part.
C14_ValueImportAddsDeclaredStub ==
    ReturnedOk =>
        \A x \in {e \in FileIds : Contributes(e)} :
            \A d \in External(x) :
                LET n == extract_package_name(d.specifier) IN
                (sources[x].syntax = "Typescript" /\ d.kind # "ImportType")
                    => /\ Survives(n) => n \in CreditedTo(x)
                       /\ (StubDeclared(n) /\ Survives(StubOf(n)))
                              => StubOf(n) \in CreditedTo(x)
                       /\ (~StubDeclared(n) /\ StubOf(n) \in CreditedTo(x))
                              => \E r \in External(x) :
                                     extract_package_name(r.specifier) = StubOf(n)

\* C14 witness: a TypeScript file with a value import of a is credited with a
\* and @types/a while a is in none of the manifest's mappings.
C14_Witness ==
    /\ ReturnedOk
    /\ sources[1].syntax = "Typescript"
    /\ Dep(PkgA, "Import") \in sources[1].deps
    /\ PkgA \notin DeclaredAnywhere
    /\ {PkgA, TypesA} \subseteq CreditedTo(1)

\* C14, the stub not declared: the same import is credited as a alone.
C14_StubUndeclared ==
    /\ ReturnedOk
    /\ sources[1].syntax = "Typescript"
    /\ Dep(PkgA, "Import") \in sources[1].deps
    /\ PkgA \in package.dependencies
    /\ ~StubDeclared(PkgA)
    /\ PkgA \in CreditedTo(1) /\ TypesA \notin CreditedTo(1)

\* C15: no built-in module name is a key of the usage map or of the missing
\* map, whether the name comes from a specifier, from type-only handling or
\* from peer/optional forwarding.
C15_NoBuiltInKey ==
    /\ \A k \in DOMAIN using_dependencies : ~is_core_module(k)
    /\ report # << >> => \A k \in DOMAIN report[1].missing : ~is_core_module(k)

\* C15, what does hold: a built-in name is credited to a file only by
\* forwarding, and is never a key of the missing map.
C15_BuiltInOnlyForwarded ==
    /\ \A k \in DOMAIN using_dependencies :
          is_core_module(k) =>
              \A x \in FileIds : k \in CreditedTo(x) => ForwardedTo(x, k)
    /\ report # << >> => \A k \in DOMAIN report[1].missing : ~is_core_module(k)

\* The names a file's imports yield that pass the built-in and bin-only filters.
DirectNames(x) ==
    {n \in UNION {TypeNames(r, sources[x].syntax) : r \in External(x)} : Survives(n)}

\* The peer and optional dependencies of the installed manifest of n that the
\* root manifest declares as dependency or devDependency; none when the
\* manifest does not load.
DeclaredPeers(n) ==
    IF n \in DOMAIN node_modules
    THEN {p \in node_modules[n].peer_dependencies \cup node_modules[n].optional_dependencies :
             p \in package.dependencies \cup package.dev_dependencies}
    ELSE {}

\* C16: a file is credited with each name that survives filtering, with the
\* declared peer and optional dependencies of that name's installed manifest
\* when it loads, and with nothing else: not with an undeclared peer, not
\* with the peers of a forwarded name; a manifest that does not load leaves
\* the direct name alone and the run still returns Ok.
C16_ForwardingIsOneLevel ==
    /\ (main_pc = "returned" /\ MalformedPatterns = {}) => outcome = "Ok"
    /\ ReturnedOk =>
          \A x \in {e \in FileIds : Contributes(e)} :
              /\ CreditedTo(x) =
                     DirectNames(x) \cup UNION {DeclaredPeers(n) : n \in DirectNames(x)}
              /\ \A k \in CreditedTo(x) \ DirectNames(x) :
                     /\ k \in package.dependencies \cup package.dev_dependencies
                     /\ \E n \in DirectNames(x) :
                            /\ n \in DOMAIN node_modules
                            /\ k \in node_modules[n].peer_dependencies
                                      \cup node_modules[n].optional_dependencies

\* C16 witness: main imports a alone; a's manifest has the declared peer b,
\* whose own manifest has the declared peer c: main is credited with a and b
\* and not with c.
C16_Witness ==
    /\ ReturnedOk
    /\ DirectNames(1) = {PkgA}
    /\ PkgA \in DOMAIN node_modules /\ PkgB \in node_modules[PkgA].peer_dependencies
    /\ PkgB \in DOMAIN node_modules /\ PkgC \in node_modules[PkgB].peer_dependencies
    /\ PkgC \in package.dependencies \cup package.dev_dependencies
    /\ CreditedTo(1) = {PkgA, PkgB}

\* C16, the manifest that does not load: the file is credited with the direct
\* names alone.
C16_LoadFails ==
    /\ ReturnedOk
    /\ DirectNames(1) # {}
    /\ \A n \in DirectNames(1) : n \notin DOMAIN node_modules
    /\ CreditedTo(1) = DirectNames(1)

\* C16, the undeclared peer: a's manifest names a peer the root manifest does
\* not declare, and the file is not credited with it.
C16_UndeclaredPeer ==
    /\ ReturnedOk
    /\ PkgA \in DirectNames(1) /\ PkgA \in DOMAIN node_modules
    /\ \E p \in node_modules[PkgA].peer_dependencies :
           p \notin DeclaredAnywhere /\ p \notin CreditedTo(1)

\* The first path segment of a specifier is '.', '..' or a root.
RelativeOrAbsolute(specifier) == Head(specifier) \in {".", "..", "/"}

\* The names a collected or sent name-set holds anywhere between extraction
\* and the usage map.
NamesInFlight ==
    UNION {dependency_channel[i].names : i \in 1..Len(dependency_channel)}
    \cup UNION {dependencies[f] : f \in DOMAIN dependencies}
    \cup DOMAIN using_dependencies

\* C17: no name of the usage map, and no name on its way there, stems from a
\* relative or absolute specifier; every name credited to a file is the
\* package name, or its type stub, of a specifier of that file whose first
\* segment is a plain name, or is forwarded from such a name; a file with
\* local specifiers only is credited with nothing.
C17_LocalSpecifiersAddNoKey ==
    /\ \A k \in NamesInFlight : ~RelativeOrAbsolute(k)
    /\ ReturnedOk =>
          \A x \in {e \in FileIds : Contributes(e)} :
              /\ \A k \in CreditedTo(x) :
                     \/ \E r \in sources[x].deps :
                            /\ ~RelativeOrAbsolute(r.specifier)
                            /\ k \in {extract_package_name(r.specifier),
                                       StubOf(extract_package_name(r.specifier))}
                     \/ \E r \in sources[x].deps :
                            /\ ~RelativeOrAbsolute(r.specifier)
                            /\ \E n \in {extract_package_name(r.specifier),
                                           StubOf(extract_package_name(r.specifier))} :
                                   k \in DeclaredPeers(n)
              /\ (\A r \in sources[x].deps : RelativeOrAbsolute(r.specifier))
                     => CreditedTo(x) = {}

\* C17 witness: main has a '.', a '..' and a rooted specifier and nothing
\* else; it parsed and was processed, is credited with nothing, and another
\* file has put a key into the usage map.
C17_Witness ==
    /\ ReturnedOk
    /\ Contributes(1) /\ merged[1] = 1
    /\ sources[1].deps # {}
    /\ \A r \in sources[1].deps : RelativeOrAbsolute(r.specifier)
    /\ {Head(r.specifier) : r \in sources[1].deps} = {".", "..", "/"}
    /\ CreditedTo(1) = {}
    /\ DOMAIN using_dependencies # {}

\* A worker is suspended: it is at lock() or inside recv() and cannot step.
Blocked(w) == worker_pc[w] \in {"lock", "recv"} /\ ~ENABLED Worker(w)

\* C18: whenever a worker is blocked, on the receiver mutex or inside recv,
\* the work channel holds no item.
C18_BlockedOnlyOnEmptyChannel ==
    crate = "core" => \A w \in Threads : Blocked(w) => file_channel = << >>

\* C18, amended: a worker is blocked only inside recv on an empty, open
\* channel, or on the mutex while another worker holds it inside its
\* receive; when the channel holds an item the holder can take it at once,
\* so some waiting worker can always proceed, and no worker waits on a mutex
\* whose holder is parsing, extracting or sending.
C18_BlockedOnEmptyChannelOrReceiver ==
    crate = "core" =>
        /\ \A w \in Threads :
              Blocked(w) =>
                  \/ /\ worker_pc[w] = "recv" /\ lock = w
                     /\ file_channel = << >> /\ file_senders > 0
                  \/ /\ worker_pc[w] = "lock"
                     /\ lock \in Threads \ {w}
                     /\ worker_pc[lock] = "recv"
                     /\ file_channel # << >> => ENABLED Worker(lock)
        /\ (file_channel # << >> /\ \E w \in Threads : worker_pc[w] \in {"lock", "recv"})
               => \E v \in Threads : worker_pc[v] \in {"lock", "recv"} /\ ~Blocked(v)

\* C18 witness: a worker is blocked on the mutex while an item is in the
\* channel and the holder is about to receive it.
C18_Witness ==
    /\ file_channel # << >>
    /\ \E w \in Threads :
           /\ Blocked(w) /\ worker_pc[w] = "lock"
           /\ lock \in Threads \ {w} /\ worker_pc[lock] = "recv"

\* C19: at most one worker holds the receiver mutex, and only across the
\* receive: a worker that is parsing, extracting, sending, waiting for the
\* mutex or gone does not hold it; every way out of the receive (entry, walk
\* error, closed channel) leaves the mutex free; and while one worker is
\* busy with a file, a worker waiting on the free mutex can take it and
\* receive.
C19_MutexOnlyAcrossReceive ==
    /\ [](crate = "core" =>
            /\ lock \in {0} \cup Threads
            /\ Cardinality({w \in Threads : worker_pc[w] = "recv"}) <= 1
            /\ \A w \in Threads : worker_pc[w] = "recv" <=> lock = w
            /\ \A v \in Threads :
                   worker_pc[v] = "extract" =>
                       /\ lock # v
                       /\ \A w \in Threads \ {v} :
                              /\ (worker_pc[w] = "lock" /\ lock = 0) => ENABLED WorkerLock(w)
                              /\ (worker_pc[w] = "recv" /\ file_channel # << >>)
                                     => ENABLED Worker(w))
    /\ [][\A w \in Threads :
              (worker_pc[w] = "recv" /\ worker_pc'[w] # "recv") => lock' = 0]_vars

\* C19 witness: one worker is extracting a file while another holds the mutex
\* inside recv and an entry is waiting in the channel.
C19_Witness ==
    /\ file_channel # << >>
    /\ \E v, w \in Threads :
           /\ worker_pc[v] = "extract"
           /\ worker_pc[w] = "recv" /\ lock = w

\* C20: every key of the usage map has a non-empty file set; every key of the
\* missing map is a usage-map key with the same file set; the missing keys
\* are disjoint from both unused sets; and a name declared only as peer or
\* optional dependency is in none of the three sets.
C20_ResultIsConsistent ==
    /\ \A k \in DOMAIN using_dependencies : using_dependencies[k] # {}
    /\ report # << >> =>
          /\ \A k \in DOMAIN report[1].missing :
                 /\ k \in DOMAIN using_dependencies
                 /\ report[1].missing[k] = using_dependencies[k]
                 /\ report[1].missing[k] # {}
          /\ DOMAIN report[1].missing
                 \cap (report[1].unused_dependencies
                       \cup report[1].unused_dev_dependencies) = {}
          /\ \A n \in (package.peer_dependencies \cup package.optional_dependencies)
                        \ (package.dependencies \cup package.dev_dependencies) :
                 /\ n \notin DOMAIN report[1].missing
                 /\ n \notin report[1].unused_dependencies
                 /\ n \notin report[1].unused_dev_dependencies

\* C20 witness: a result with all three sets non-empty whose usage map holds a
\* name declared as peer or optional dependency only.
C20_Witness ==
    /\ report # << >>
    /\ DOMAIN report[1].missing # {}
    /\ report[1].unused_dependencies # {}
    /\ report[1].unused_dev_dependencies # {}
    /\ \E n \in DOMAIN using_dependencies :
           /\ n \in package.peer_dependencies \cup package.optional_dependencies
           /\ n \notin package.dependencies \cup package.dev_dependencies

====
